---- MODULE Spec2Model ----
(***************************************************************************)
(* Variant generation pipeline of the web-coding replica generator.        *)
(*                                                                         *)
(* Two near-identical Flask servers are modelled: backend/app.py (ledger   *)
(* in a SQLite row, shuffled theme cycle, colour palettes) and             *)
(* backend/main.py (ledger in a process-wide dict, no palettes).           *)
(*                                                                         *)
(* Text is a sequence of atoms.  A theme label is a sequence of one-       *)
(* character strings; a response text is a sequence of atoms in which      *)
(* every sentinel of the delimiter protocol, every white-space character   *)
(* and every other word is one atom.                                       *)
(***************************************************************************)
EXTENDS Integers, Sequences, FiniteSets, TLC

\* ------------------------------------------------------------------------
\* Bounds of the model
\* ------------------------------------------------------------------------
MaxN == 3          \* largest num_replicas a request asks for
MaxBatches == 2    \* generate-replicas requests accepted in one run
MaxResets == 1     \* reset-session-tokens requests accepted in one run

Threads == {1, 2}      \* request-handler threads of the Flask server
AppThreads == {1}      \* app.py: batches are driven one request at a time
MainThreads == {1, 2}  \* main.py: two requests in flight

Min(a, b) == IF a < b THEN a ELSE b

\* ------------------------------------------------------------------------
\* Python string primitives on sequences of atoms
\* ------------------------------------------------------------------------
UpperCase == <<"A","B","C","D","E","F","G","H","I","J","K","L","M",
               "N","O","P","Q","R","S","T","U","V","W","X","Y","Z">>
LowerCase == <<"a","b","c","d","e","f","g","h","i","j","k","l","m",
               "n","o","p","q","r","s","t","u","v","w","x","y","z">>

\* str.lower() of one character
LowerChar(c) ==
    IF \E k \in 1..26 : UpperCase[k] = c
    THEN LowerCase[CHOOSE k \in 1..26 : UpperCase[k] = c]
    ELSE c

\* str.lower()
Lower(s) == [k \in 1..Len(s) |-> LowerChar(s[k])]

\* str.replace(old, new): leftmost, non-overlapping occurrences, old non-empty
RECURSIVE Replace(_, _, _)
Replace(s, old, new) ==
    IF Len(s) < Len(old) THEN s
    ELSE IF SubSeq(s, 1, Len(old)) = old
         THEN new \o Replace(SubSeq(s, Len(old) + 1, Len(s)), old, new)
         ELSE <<s[1]>> \o Replace(Tail(s), old, new)

\* str.lstrip(chars) / str.rstrip(chars) / str.strip(chars)
RECURSIVE LStrip(_, _)
LStrip(s, chars) ==
    IF s # <<>> /\ s[1] \in chars THEN LStrip(Tail(s), chars) ELSE s

RECURSIVE RStrip(_, _)
RStrip(s, chars) ==
    IF s # <<>> /\ s[Len(s)] \in chars
    THEN RStrip(SubSeq(s, 1, Len(s) - 1), chars)
    ELSE s

Strip(s, chars) == RStrip(LStrip(s, chars), chars)

Space == {" ", "\n", "\t", "\r"}

\* ------------------------------------------------------------------------
\* Theme/palette selector
\* ------------------------------------------------------------------------
CoffeeShopManager ==
    <<"C","o","f","f","e","e"," ","S","h","o","p"," ","M","a","n","a","g","e","r">>
PetStoreManager ==
    <<"P","e","t"," ","S","t","o","r","e"," ","M","a","n","a","g","e","r">>

\* the theme pool (two labels of the 494 of the source)
themes == <<CoffeeShopManager, PetStoreManager>>

\* the palette pool (two palettes of the 51 of the source)
color_schemes ==
    << [primary |-> "#FF6B6B", secondary |-> "#4ECDC4", accent |-> "#45B7D1",
        background |-> "#F8F9FA", text |-> "#2C3E50"],
       [primary |-> "#6C5CE7", secondary |-> "#FD79A8", accent |-> "#FDCB6E",
        background |-> "#DDD6FE", text |-> "#2D3748"] >>

\* every order random.shuffle can leave a list in
Shuffles(pool) ==
    { [k \in 1..Len(pool) |-> pool[p[k]]] :
        p \in { q \in [1..Len(pool) -> 1..Len(pool)] :
                  \A a, b \in 1..Len(pool) : a # b => q[a] # q[b] } }

\* variant: the cycle runs through the pool from its end
CycleIndexFromEnd(i, pool) == Len(pool) - ((i - 1) % Len(pool))

\* index of unit i (1-indexed) in a pool, 1-based position in the sequence
CycleIndex(i, pool) == ((i - 1) % Len(pool)) + 1

\* variant: the suffix is the last word of the lower-cased label
ThemeSuffixLastWord(selected_theme) ==
    LET l == Lower(selected_theme)
        blanks == { k \in 1..Len(l) : l[k] = " " }
        last == IF blanks = {} THEN 0
                ELSE CHOOSE k \in blanks : \A j \in blanks : j <= k
    IN  SubSeq(l, last + 1, Len(l))

\* theme_suffix of a label
ThemeSuffix(selected_theme) ==
    Strip(Replace(Replace(Replace(Replace(Lower(selected_theme),
                <<" ">>, <<"-">>),
                <<"s","t","o","r","e">>, <<>>),
                <<"s","h","o","p">>, <<>>),
                <<"m","a","n","a","g","e","r">>, <<>>),
          {"-"})

\* ------------------------------------------------------------------------
\* Token accountant
\* ------------------------------------------------------------------------
\* count_tokens: the tokenizer yields one token per non-blank atom
RECURSIVE count_tokens(_)
count_tokens(text) ==
    IF text = <<>> THEN 0
    ELSE (IF text[1] \in Space THEN 0 ELSE 1) + count_tokens(Tail(text))

\* ------------------------------------------------------------------------
\* Response parser (delimiter protocol)
\* ------------------------------------------------------------------------
\* first index k >= from with text[k] = a, or 0
IndexFrom(text, a, from) ==
    IF \E k \in from..Len(text) : text[k] = a
    THEN CHOOSE k \in from..Len(text) :
            text[k] = a /\ \A j \in from..(k - 1) : text[j] # a
    ELSE 0

\* variant: the section runs to the last END sentinel of the text
SectionGreedy(text, start, end) ==
    LET s == IndexFrom(text, start, 1)
        ends == { k \in (s + 1)..Len(text) : text[k] = end }
    IN  IF s = 0 \/ ends = {} THEN <<>>
        ELSE Strip(SubSeq(text, s + 1,
                          (CHOOSE k \in ends : \A j \in ends : j <= k) - 1),
                   Space)

\* re.search(START \s*(.*?)\s* END, text, DOTALL) then group(1).strip();
\* "" when there is no match
Section(text, start, end) ==
    LET s == IndexFrom(text, start, 1)
        e == IF s = 0 THEN 0 ELSE IndexFrom(text, end, s + 1)
    IN  IF s = 0 \/ e = 0 THEN <<>>
        ELSE Strip(SubSeq(text, s + 1, e - 1), Space)

\* index of the last atom of the line that holds position p ('.' stops at "\n")
EndOfLine(text, p) ==
    LET nl == IndexFrom(text, "\n", p)
    IN  IF nl = 0 THEN Len(text) ELSE nl - 1

\* where group(1) of THEME:\s*(.+) starts for the THEME: atom at k, or 0.
\* \s* is greedy: the group starts at the first non-blank atom after the
\* blanks; when the blanks run to the end of the text the regex backtracks to
\* the last blank that is not a line break.
ThemeGroupStart(text, k) ==
    LET nb == { j \in (k + 1)..Len(text) : text[j] \notin Space }
        first == IF nb = {} THEN 0
                 ELSE CHOOSE j \in nb : \A j2 \in nb : j <= j2
        back == { j \in (k + 1)..Len(text) : text[j] # "\n" }
    IN  IF first # 0 THEN first
        ELSE IF back = {} THEN 0
        ELSE CHOOSE j \in back : \A j2 \in back : j2 <= j

\* the THEME: atoms at which THEME:\s*(.+) matches
ThemeMatches(text) ==
    { k \in 1..Len(text) : text[k] = "THEME:" /\ ThemeGroupStart(text, k) # 0 }

IsReplicaWord(a) == a \in {"Replica", "replica", "REPLICA"}
Digits == {"0", "1", "2", "3", "4", "5", "6", "7", "8", "9"}

\* number of leading atoms of s that lie in the set chars
RECURSIVE RunLen(_, _)
RunLen(s, chars) ==
    IF s # <<>> /\ s[1] \in chars THEN 1 + RunLen(Tail(s), chars) ELSE 0

Drop(s, n) == SubSeq(s, n + 1, Len(s))

\* length of the match of \s*-?\s*Replica\s*\d*\s* at the head of s, 0 if none
ReplicaMatchLen(s) ==
    LET a == RunLen(s, Space)
        s1 == Drop(s, a)
        b == IF s1 # <<>> /\ s1[1] = "-" THEN 1 ELSE 0
        s2 == Drop(s1, b)
        c == RunLen(s2, Space)
        s3 == Drop(s2, c)
    IN  IF s3 # <<>> /\ IsReplicaWord(s3[1])
        THEN LET s4 == Drop(s3, 1)
                 d == RunLen(s4, Space)
                 s5 == Drop(s4, d)
                 e == RunLen(s5, Digits)
                 f == RunLen(Drop(s5, e), Space)
             IN  a + b + c + 1 + d + e + f
        ELSE 0

\* re.sub(r'\s*-?\s*Replica\s*\d*\s*', '', s, flags=re.IGNORECASE)
RECURSIVE SubReplica(_)
SubReplica(s) ==
    IF s = <<>> THEN <<>>
    ELSE LET n == ReplicaMatchLen(s)
         IN  IF n > 0 THEN SubReplica(Drop(s, n))
             ELSE <<s[1]>> \o SubReplica(Tail(s))

UntitledTheme == <<"Untitled", " ", "Theme">>
CustomTheme == <<"Custom", " ", "Theme">>

\* the short_text of a response
ThemeOf(response_text) ==
    LET ms == ThemeMatches(response_text)
        raw_theme ==
            IF ms = {} THEN UntitledTheme
            ELSE LET k == CHOOSE m \in ms : \A m2 \in ms : m <= m2
                     g == ThemeGroupStart(response_text, k)
                 IN  Strip(SubSeq(response_text, g, EndOfLine(response_text, g)),
                           Space)
        theme == Strip(SubReplica(raw_theme), Space)
    IN  IF theme = <<>> THEN CustomTheme ELSE theme

\* Python's None
NoneValue == [none |-> TRUE]

\* variant: the solution fields are left empty
parse_structured_response_no_solution(response_text) ==
    [short_text |-> ThemeOf(response_text),
     html_code |-> Section(response_text, "HTML_START", "HTML_END"),
     css_code |-> Section(response_text, "CSS_START", "CSS_END"),
     js_code |-> Section(response_text, "JS_START", "JS_END"),
     question_text |-> Section(response_text, "QUESTION_START", "QUESTION_END"),
     test_cases |-> Section(response_text, "TESTS_START", "TESTS_END"),
     html_solution |-> <<>>, css_solution |-> <<>>, js_solution |-> <<>>,
     subtopic |-> <<>>, course |-> <<>>, module |-> <<>>, unit |-> <<>>]

\* parse_structured_response for a response that is a string: the regex
\* searches cannot raise, so the except branch (return None) is not taken
parse_structured_response(response_text) ==
    LET html_code == Section(response_text, "HTML_START", "HTML_END")
        css_code == Section(response_text, "CSS_START", "CSS_END")
        js_code == Section(response_text, "JS_START", "JS_END")
    IN  [short_text |-> ThemeOf(response_text),
              html_code |-> html_code,
              css_code |-> css_code,
              js_code |-> js_code,
              question_text |->
                  Section(response_text, "QUESTION_START", "QUESTION_END"),
              test_cases |-> Section(response_text, "TESTS_START", "TESTS_END"),
              html_solution |-> html_code,
              css_solution |-> css_code,
              js_solution |-> js_code,
              subtopic |-> <<>>,
              course |-> <<>>,
              module |-> <<>>,
              unit |-> <<>>]

\* ------------------------------------------------------------------------
\* JSON extraction with layered repair
\* ------------------------------------------------------------------------
\* A JSON text is a sequence of atoms: the punctuation characters, the quote
\* character Quote, a line break, the two-character escapes EscNewline and
\* EscQuote, a blank, and one atom for every other word.
Quote == "\""
EscQuote == "\\\""
EscNewline == "\\n"
Fence == "<fence>"          \* the three-backtick markdown fence
FenceJson == "<fence>json"  \* the fence with its json tag
JsonSpace == {" ", "\n", "\t", "\r"}
JsonNumbers == {"1", "2"}

\* the atom at position p, "" beyond the end of the text
At(text, p) == IF p \in 1..Len(text) THEN text[p] ELSE ""

\* the first position >= p that holds no white space
SkipSpace(text, p) == p + RunLen(Drop(text, p - 1), JsonSpace)

\* json.loads, the scanner: each operator takes the position where a
\* construct starts and gives the position after it, 0 when the text does not
\* hold the construct there.  A string ends at the next quote character and
\* holds no raw control character.
ScanString(text, p) ==
    LET close == IndexFrom(text, Quote, p + 1)
    IN  IF At(text, p) # Quote \/ close = 0 THEN 0
        ELSE IF \E k \in (p + 1)..(close - 1) : text[k] \in {"\n", "\t", "\r"}
        THEN 0
        ELSE close + 1

RECURSIVE ScanValue(_, _), ScanMembers(_, _)
ScanValue(text, p) ==
    IF At(text, p) = Quote THEN ScanString(text, p)
    ELSE IF At(text, p) \in JsonNumbers THEN p + 1
    ELSE IF At(text, p) = "{"
    THEN LET q == SkipSpace(text, p + 1)
         IN  IF At(text, q) = "}" THEN q + 1 ELSE ScanMembers(text, q)
    ELSE 0

\* the members of an object from position p on, up to its closing brace
ScanMembers(text, p) ==
    LET key == ScanString(text, p)
        colon == IF key = 0 THEN 0 ELSE SkipSpace(text, key)
        value == IF colon = 0 \/ At(text, colon) # ":" THEN 0
                 ELSE ScanValue(text, SkipSpace(text, colon + 1))
        next == IF value = 0 THEN 0 ELSE SkipSpace(text, value)
    IN  IF next = 0 THEN 0
        ELSE IF At(text, next) = "," THEN ScanMembers(text, SkipSpace(text, next + 1))
        ELSE IF At(text, next) = "}" THEN next + 1
        ELSE 0

\* json.loads(text) returns a value (TRUE) or raises JSONDecodeError (FALSE)
Loads(text) ==
    LET end == ScanValue(text, SkipSpace(text, 1))
    IN  end # 0 /\ SkipSpace(text, end) = Len(text) + 1

\* the last index k with text[k] = a, or 0
LastIndex(text, a) ==
    IF \E k \in 1..Len(text) : text[k] = a
    THEN CHOOSE k \in 1..Len(text) :
            text[k] = a /\ \A j \in (k + 1)..Len(text) : text[j] # a
    ELSE 0

\* the re.sub of clean_openai_json_response: it matches a line break that is
\* followed, on the next line, by the last quote character of the text; its
\* replacement template '\\n' is expanded by re.sub to a line break, so the
\* matched line break is replaced by a line break
SubNewlineBeforeLastQuote(s) ==
    LET q == LastIndex(s, Quote)
        nl == IF q = 0 THEN 0 ELSE LastIndex(SubSeq(s, 1, q - 1), "\n")
    IN  IF nl = 0 THEN s
        ELSE [k \in 1..Len(s) |-> IF k = nl THEN "\n" ELSE s[k]]

\* the markdown fence is taken off the stripped text
Unfenced(response_text) ==
    LET cleaned == Strip(response_text, JsonSpace)
        head == IF cleaned # <<>> /\ cleaned[1] \in {Fence, FenceJson}
                THEN Tail(cleaned) ELSE cleaned
        body == IF head # <<>> /\ head[Len(head)] = Fence
                THEN SubSeq(head, 1, Len(head) - 1) ELSE head
    IN  Strip(body, JsonSpace)

\* clean_openai_json_response: [raised |-> TRUE] for the ValueError, else the
\* text it returns
clean_openai_json_response(response_text) ==
    LET cleaned == Unfenced(response_text)
        start_idx == IndexFrom(cleaned, "{", 1)
        end_idx == LastIndex(cleaned, "}")
        json_content == SubSeq(cleaned, start_idx, end_idx)
        fixed == SubNewlineBeforeLastQuote(json_content)
    IN  IF start_idx = 0 \/ end_idx = 0
        THEN [raised |-> TRUE,
              error |-> "No valid JSON object found in response"]
        ELSE [raised |-> FALSE,
              text |-> IF Loads(json_content) THEN json_content ELSE fixed]

\* the atoms of s whose index is not in the set drop
RECURSIVE WithoutIndices(_, _)
WithoutIndices(s, drop) ==
    IF s = <<>> THEN <<>>
    ELSE WithoutIndices(SubSeq(s, 1, Len(s) - 1), drop)
         \o (IF Len(s) \in drop THEN <<>> ELSE <<s[Len(s)]>>)

\* strategy 1: s.replace of the line break, carriage return and tab by their
\* two-character escapes
EscapeControl(s) ==
    [k \in 1..Len(s) |->
        IF s[k] = "\n" THEN EscNewline
        ELSE IF s[k] = "\r" THEN "\\r"
        ELSE IF s[k] = "\t" THEN "\\t"
        ELSE s[k]]

\* the colons at which the pattern of strategy 2 matches: a colon, white
\* space, a quote character and three more quote characters after it
InnerQuoteMatches(s) ==
    { c \in 1..Len(s) :
        /\ s[c] = ":"
        /\ At(s, SkipSpace(s, c + 1)) = Quote
        /\ LET q1 == SkipSpace(s, c + 1)
               q2 == IndexFrom(s, Quote, q1 + 1)
               q3 == IF q2 = 0 THEN 0 ELSE IndexFrom(s, Quote, q2 + 1)
           IN  q3 # 0 /\ IndexFrom(s, Quote, q3 + 1) # 0 }

\* strategy 2: re.sub that escapes the second and the third of four quote
\* characters after a colon (s holds no escaped quote yet)
RECURSIVE EscapeInnerQuotes(_)
EscapeInnerQuotes(s) ==
    IF InnerQuoteMatches(s) = {} THEN s
    ELSE LET c == CHOOSE m \in InnerQuoteMatches(s) :
                      \A m2 \in InnerQuoteMatches(s) : m <= m2
             q1 == SkipSpace(s, c + 1)
             q2 == IndexFrom(s, Quote, q1 + 1)
             q3 == IndexFrom(s, Quote, q2 + 1)
             q4 == IndexFrom(s, Quote, q3 + 1)
         IN  SubSeq(s, 1, q2 - 1) \o <<EscQuote>>
             \o SubSeq(s, q2 + 1, q3 - 1) \o <<EscQuote>>
             \o SubSeq(s, q3 + 1, q4) \o EscapeInnerQuotes(Drop(s, q4))

\* strategy 3: re.sub that removes a comma followed by white space and a
\* closing brace or bracket
RemoveTrailingCommas(s) ==
    WithoutIndices(s, { k \in 1..Len(s) :
                          s[k] = "," /\ At(s, SkipSpace(s, k + 1)) \in {"}", "]"} })

\* the lines of a text, split at its line breaks
RECURSIVE SplitLines(_)
SplitLines(s) ==
    LET nl == IndexFrom(s, "\n", 1)
    IN  IF nl = 0 THEN <<s>>
        ELSE <<SubSeq(s, 1, nl - 1)>> \o SplitLines(Drop(s, nl))

\* '\n'.join(lines)
RECURSIVE JoinLines(_)
JoinLines(lines) ==
    IF Len(lines) = 1 THEN lines[1]
    ELSE lines[1] \o <<"\n">> \o JoinLines(Tail(lines))

\* one line of fix_unterminated_strings: a closing quote is appended when the
\* part after the first colon holds an odd number of unescaped quote
\* characters and does not end in a quote character
FixLine(line) ==
    LET colon == IndexFrom(line, ":", 1)
        value_part == Strip(Drop(line, colon), JsonSpace)
        unescaped_quotes ==
            Cardinality({ k \in 1..Len(value_part) : value_part[k] = Quote })
    IN  IF colon = 0 THEN line
        ELSE IF unescaped_quotes % 2 = 1
                /\ value_part[Len(value_part)] \notin {Quote, EscQuote}
        THEN RStrip(line, JsonSpace) \o <<Quote>>
        ELSE line

\* strategy 4
fix_unterminated_strings(json_str) ==
    LET lines == SplitLines(json_str)
    IN  JoinLines([k \in 1..Len(lines) |-> FixLine(lines[k])])

\* strategy 5: re.sub that puts a comma after a closing brace that is followed
\* by white space and a quote character
RECURSIVE InsertMissingCommas(_)
InsertMissingCommas(s) ==
    IF s = <<>> THEN <<>>
    ELSE (IF s[1] = "}" /\ At(s, SkipSpace(s, 2)) = Quote
          THEN <<"}", ",">> ELSE <<s[1]>>)
         \o InsertMissingCommas(Tail(s))

NumStrategies == 5

\* repair_strategies[k - 1](s)
Strategy(k, s) ==
    CASE k = 1 -> EscapeControl(s)
      [] k = 2 -> EscapeInnerQuotes(s)
      [] k = 3 -> RemoveTrailingCommas(s)
      [] k = 4 -> fix_unterminated_strings(s)
      [] k = 5 -> InsertMissingCommas(s)

\* the loop of attempt_json_repair from strategy k on: the output of the first
\* strategy whose output parses, None when there is none
RECURSIVE RepairFrom(_, _)
RepairFrom(k, current_json) ==
    IF k > NumStrategies THEN NoneValue
    ELSE LET repaired == Strategy(k, current_json)
         IN  IF Loads(repaired) THEN [text |-> repaired]
             ELSE RepairFrom(k + 1, repaired)

\* attempt_json_repair: [text |-> the repaired text], or None
attempt_json_repair(response_text) ==
    LET cleaned == clean_openai_json_response(response_text)
    IN  IF cleaned.raised THEN NoneValue ELSE RepairFrom(1, cleaned.text)

\* ------------------------------------------------------------------------
\* Request data
\* ------------------------------------------------------------------------
\* dict.get(key, default)
Get(d, key, default) == IF key \in DOMAIN d THEN d[key] ELSE default

\* the d[:n] slice
Prefix(s, n) == SubSeq(s, 1, Min(n, Len(s)))

SnippetLen == 500

TC1 == [id |-> "orig-1", display_text |-> "shows-total",
        criteria |-> "total-visible",
        evaluation_type |-> "SERVER_SIDE_EVALUATION", order |-> 4,
        weightage |-> 5]
TC2 == [id |-> "orig-2", display_text |-> "adds-item", criteria |-> "item-added"]

TagSubTopic == <<"S","U","B","_","T","O","P","I","C","_","c","s","s","_","g","r","i","d">>
TagCourse == <<"C","O","U","R","S","E","_","w","e","b">>
TagModule == <<"M","O","D","U","L","E","_","m","1">>
TagUnit == <<"U","N","I","T","_","u">>

Solutions ==
    << [code_details |->
          << [language |-> "HTML", code_data |-> <<"<div>", " ", "</div>">>],
             [language |-> "CSS", code_data |-> <<"div", "{}">>],
             [language |-> "JAVASCRIPT", code_data |-> <<"total()">>] >>] >>

\* request bodies without num_replicas
DataA ==
    [question_text |-> <<"Build", " ", "a", " ", "calculator">>,
     short_text |-> <<"Calculator">>,
     solutions_metadata |-> Solutions,
     test_cases |-> <<TC1, TC2>>,
     replica_type |-> "webcoding",
     tag_names |-> <<TagSubTopic, TagCourse, TagModule, TagUnit>>]
DataB ==
    [question_text |-> <<"Build", " ", "a", " ", "counter">>,
     short_text |-> <<"Counter">>,
     solutions_metadata |-> <<>>,
     test_cases |-> <<TC2>>,
     replica_type |-> "webcoding",
     subtopic |-> <<"C","s","s">>,
     course |-> <<"W","e","b">>,
     module |-> <<"M","1">>,
     unit |-> <<"U">>]

required_fields ==
    <<"question_text", "short_text", "solutions_metadata", "test_cases",
      "replica_type", "num_replicas">>

\* d without key k
Without(d, k) == [x \in DOMAIN d \ {k} |-> d[x]]

\* the request bodies a client posts to /api/generate-replicas
Requests ==
    { base @@ [num_replicas |-> n] : base \in {DataA, DataB}, n \in 0..MaxN }
    \cup { Without(DataA @@ [num_replicas |-> 1], required_fields[k]) :
             k \in 1..Len(required_fields) }

\* ------------------------------------------------------------------------
\* Helpers of the orchestrator
\* ------------------------------------------------------------------------
IsLetter(c) == \E k \in 1..26 : c = UpperCase[k] \/ c = LowerCase[k]

UpperChar(c) ==
    IF \E k \in 1..26 : LowerCase[k] = c
    THEN UpperCase[CHOOSE k \in 1..26 : LowerCase[k] = c]
    ELSE c

\* str.title()
Title(s) ==
    [k \in 1..Len(s) |->
        IF k = 1 \/ ~IsLetter(s[k - 1]) THEN UpperChar(s[k]) ELSE LowerChar(s[k])]

\* str.startswith(prefix)
StartsWith(s, prefix) ==
    Len(s) >= Len(prefix) /\ SubSeq(s, 1, Len(prefix)) = prefix

RECURSIVE extract_tag_value(_, _)
extract_tag_value(tag_list, prefix) ==
    IF tag_list = <<>> THEN <<>>
    ELSE IF StartsWith(tag_list[1], prefix)
         THEN Title(Replace(Replace(tag_list[1], prefix, <<>>), <<"_">>, <<" ">>))
         ELSE extract_tag_value(Tail(tag_list), prefix)

PrefixSubTopic == <<"S","U","B","_","T","O","P","I","C","_">>
PrefixCourse == <<"C","O","U","R","S","E","_">>
PrefixModule == <<"M","O","D","U","L","E","_">>
PrefixUnit == <<"U","N","I","T","_">>

\* variant: every identifier drawn is the same
UuidFixed(n) == "uuid-0"

\* str(uuid.uuid4()) for the n-th identifier the process draws
Uuid(n) == "uuid-" \o ToString(n)

\* format_test_cases_from_original; uuid_base identifiers were drawn before
format_test_cases_from_original(original_test_cases, num_replicas, uuid_base) ==
    LET max_test_cases ==
            IF num_replicas # 0 /\ num_replicas < Len(original_test_cases)
            THEN num_replicas ELSE Len(original_test_cases)
    IN  [k \in 1..max_test_cases |->
            LET test_case == original_test_cases[k]
            IN  [id |-> Uuid(uuid_base + k),
                 display_text |-> Get(test_case, "display_text", ""),
                 criteria |-> Get(test_case, "criteria", ""),
                 evaluation_type |->
                     Get(test_case, "evaluation_type", "CLIENT_SIDE_EVALUATION"),
                 order |-> Get(test_case, "order", k),
                 reason_for_failure |->
                     Get(test_case, "reason_for_failure", NoneValue),
                 weightage |-> Get(test_case, "weightage", 10)]]

\* the code_data of the last code detail in the given language, "" if none
RECURSIVE CodeOf(_, _)
CodeOf(code_details, language) ==
    IF code_details = <<>> THEN <<>>
    ELSE LET last == code_details[Len(code_details)]
         IN  IF Get(last, "language", "") = language
             THEN Get(last, "code_data", <<>>)
             ELSE CodeOf(SubSeq(code_details, 1, Len(code_details) - 1), language)

\* the test_cases_text block of the prompt
RECURSIVE TestCasesText(_)
TestCasesText(test_cases) ==
    IF test_cases = <<>> THEN <<>>
    ELSE LET tc == test_cases[1]
         IN  <<"Test", " ", "Case", " ">>
             \o (IF "order" \in DOMAIN tc THEN <<ToString(tc.order)>> ELSE <<>>)
             \o <<":", " ", Get(tc, "display_text", ""), "\n",
                  "Criteria:", " ", Get(tc, "criteria", ""), "\n", "\n">>
             \o TestCasesText(Tail(test_cases))

\* load_prompt_template (abridged to the lines that hold placeholders)
prompt_template ==
    <<"creating", " ", "**", "{{N}}", "**", " ", "unique", " ", "replicas", "\n",
      "ORIGINAL_HTML_CODE:", " ", "{{original_html}}", "\n",
      "ORIGINAL_CSS_CODE:", " ", "{{original_css}}", "\n",
      "ORIGINAL_JS_CODE:", " ", "{{original_js}}", "\n",
      "SHORT_TEXT:", " ", "{{short_description}}", "\n",
      "QUESTION_TEXT:", " ", "{{problem_statement}}", "\n",
      "TEST_CASES:", " ", "{{test_scenarios}}", "\n",
      "NUMBER_OF_REPLICAS:", " ", "{{N}}", "\n">>

\* formatted_prompt of generate_replicas
FormattedPrompt(data) ==
    LET solutions == IF data.solutions_metadata # <<>>
                     THEN data.solutions_metadata[1] ELSE [x \in {} |-> x]
        code_details == Get(solutions, "code_details", <<>>)
        p1 == Replace(prompt_template, <<"{{original_html}}">>,
                      CodeOf(code_details, "HTML"))
        p2 == Replace(p1, <<"{{original_css}}">>, CodeOf(code_details, "CSS"))
        p3 == Replace(p2, <<"{{original_js}}">>,
                      CodeOf(code_details, "JAVASCRIPT"))
        p4 == Replace(p3, <<"{{short_description}}">>, data.short_text)
        p5 == Replace(p4, <<"{{problem_statement}}">>, data.question_text)
        p6 == Replace(p5, <<"{{test_scenarios}}">>,
                      TestCasesText(Get(data, "test_cases", <<>>)))
    IN  Replace(p6, <<"{{N}}">>, <<ToString(data.num_replicas)>>)

\* ------------------------------------------------------------------------
\* The external generation service
\* ------------------------------------------------------------------------
ResponseFull ==
    <<"THEME:", " ", "Bakery", " ", "-", " ", "Replica", " ", "1", "\n",
      "HTML_START", "\n", "<div-id=total-bakery>", "\n", "HTML_END", "\n",
      "CSS_START", "\n", "div{color:red}", "\n", "CSS_END", "\n",
      "JS_START", "\n", "total()", "\n", "JS_END", "\n",
      "QUESTION_START", "\n", "Build", " ", "a", " ", "till", "\n",
      "QUESTION_END", "\n",
      "TESTS_START", "\n", "t1", "\n", "t2", "\n", "TESTS_END">>
ResponsePartial ==
    <<"HTML_START", "<p>", "HTML_END", "\n", "CSS_START", "p{}">>

\* what one call of openai.ChatCompletion.create can do: raise, or return a
\* message whose content is a text, or a message whose content is None
Outcomes ==
    { [kind |-> "raise", reason |-> "rate-limit"], [kind |-> "none"] }
    \cup { [kind |-> "text", content |-> c] :
             c \in {ResponseFull, ResponsePartial} }

\* ------------------------------------------------------------------------
\* State
\* ------------------------------------------------------------------------
VARIABLES
    pc,           \* position of each handler thread in generate_replicas
    data,         \* request.json of the request a thread serves
    loc,          \* local variables of generate_replicas, per thread
    calls,        \* per thread: the invocations of the service, in order
    http,         \* per thread: the response the handler returned
    token_usage,  \* the ledger: the 'main' row (app.py), the dict (main.py)
    journal,      \* ledger operations that were carried out, in order
    uuid_count,   \* identifiers drawn from uuid.uuid4 so far
    accepted,     \* generate-replicas requests accepted so far
    workload,     \* what the clients send in this run: how many requests,
                  \* and the largest num_replicas they ask for
    arg,          \* the input of a pure function under study
    result        \* what the function returned for arg, NoneValue before

vars == <<pc, data, loc, calls, http, token_usage, journal, uuid_count,
          accepted, workload, arg, result>>

\* the variables of the servers
server == <<pc, data, loc, calls, http, token_usage, journal, uuid_count,
            accepted, workload>>

\* one large batch, or several small batches
Workloads ==
    { [batches |-> 1, num_replicas |-> MaxN],
      [batches |-> MaxBatches, num_replicas |-> 1] }

NoLocals ==
    [input_tokens |-> 0, shuffled_themes |-> <<>>, num_replicas |-> 0, i |-> 0,
     all_replicas |-> <<>>, total_output_tokens |-> 0,
     total_request_tokens |-> 0, tmp |-> 0]

\* init_database on a fresh store / the token_usage literal of main.py
Init ==
    /\ pc = [t \in Threads |-> "idle"]
    /\ data = [t \in Threads |-> NoneValue]
    /\ loc = [t \in Threads |-> NoLocals]
    /\ calls = [t \in Threads |-> <<>>]
    /\ http = [t \in Threads |-> NoneValue]
    /\ token_usage = [session_tokens |-> 0, total_tokens |-> 0]
    /\ journal = <<>>
    /\ uuid_count = 0
    /\ accepted = 0
    /\ workload \in Workloads
    /\ arg = NoneValue
    /\ result = NoneValue

\* ------------------------------------------------------------------------
\* The result dict all_replicas: a sequence of slots in insertion order
\* ------------------------------------------------------------------------
HasKey(d, key) == \E k \in 1..Len(d) : d[k].key = key

\* variant: slots are keyed from 0
DictPutShifted(d, key, value) ==
    Append(d, [key |-> key - 1, value |-> value])

\* d[key] = value
DictPut(d, key, value) ==
    IF HasKey(d, key)
    THEN [k \in 1..Len(d) |-> IF d[k].key = key
                               THEN [key |-> key, value |-> value] ELSE d[k]]
    ELSE Append(d, [key |-> key, value |-> value])

\* r.update(m) for records
Update(r, m) == m @@ r

MissingFields(d) ==
    { k \in 1..Len(required_fields) : required_fields[k] \notin DOMAIN d }

\* ------------------------------------------------------------------------
\* Ledger operations
\* ------------------------------------------------------------------------
\* variant: SET total_tokens = ? instead of total_tokens + ?
update_token_usage_assign(usage, session_tokens_increment, total_tokens_increment) ==
    [session_tokens |-> usage.session_tokens + session_tokens_increment,
     total_tokens |-> total_tokens_increment]

\* variant: only the session column is incremented
update_token_usage_session_only(usage, session_tokens_increment, total_tokens_increment) ==
    [session_tokens |-> usage.session_tokens + session_tokens_increment,
     total_tokens |-> usage.total_tokens]

\* update_token_usage: one SQL UPDATE of the 'main' row
update_token_usage(usage, session_tokens_increment, total_tokens_increment) ==
    [session_tokens |-> usage.session_tokens + session_tokens_increment,
     total_tokens |-> usage.total_tokens + total_tokens_increment]

\* variant: the reset clears both columns
reset_all_tokens(usage) == [session_tokens |-> 0, total_tokens |-> 0]

\* reset_session_tokens: one SQL UPDATE of the 'main' row
reset_session_tokens(usage) ==
    [session_tokens |-> 0, total_tokens |-> usage.total_tokens]

\* ------------------------------------------------------------------------
\* generate_replicas: validation and set-up (the same in both servers)
\* ------------------------------------------------------------------------
\* variant: every early return carries status 500
ErrorResponseAlways500(status, message) == [status |-> 500, error |-> message]

\* variant: the error response carries no message
ErrorResponseNoMessage(status, message) == [status |-> status, error |-> <<>>]

\* return jsonify({"error": message}), status
ErrorResponse(status, message) == [status |-> status, error |-> message]

Start(t) ==
    /\ pc[t] = "idle"
    /\ accepted < workload.batches
    /\ accepted' = accepted + 1
    /\ \E d \in Requests, api_key \in BOOLEAN :
         /\ Get(d, "num_replicas", 0) <= workload.num_replicas
         /\ data' = [data EXCEPT ![t] = d]
         /\ IF MissingFields(d) # {}
            THEN LET k == CHOOSE m \in MissingFields(d) :
                              \A m2 \in MissingFields(d) : m <= m2
                 IN  /\ http' = [http EXCEPT ![t] =
                            ErrorResponse(400, <<"Missing required field:",
                                                 required_fields[k]>>)]
                     /\ pc' = [pc EXCEPT ![t] = "returned"]
                     /\ loc' = loc
            ELSE IF ~api_key
            THEN /\ http' = [http EXCEPT ![t] =
                        ErrorResponse(500, <<"OpenAI API key not configured">>)]
                 /\ pc' = [pc EXCEPT ![t] = "returned"]
                 /\ loc' = loc
            ELSE /\ \E shuffled_themes \in Shuffles(themes) :
                      loc' = [loc EXCEPT ![t] =
                          [NoLocals EXCEPT
                              !.input_tokens = count_tokens(FormattedPrompt(d)),
                              !.shuffled_themes = shuffled_themes,
                              !.num_replicas = d.num_replicas,
                              !.i = 1]]
                 /\ pc' = [pc EXCEPT ![t] = "loop"]
                 /\ http' = http
    /\ UNCHANGED <<calls, token_usage, journal, uuid_count, workload, arg,
                   result>>

\* variant: a unit whose invocation failed is run again
LoopAdvanceRetry(i, num_replicas, outcome) ==
    IF outcome.kind # "text" THEN i ELSE i + 1

\* variant: the first invocation failure ends the loop
LoopAdvanceAbortOnFailure(i, num_replicas, outcome) ==
    IF outcome.kind # "text" THEN num_replicas + 1 ELSE i + 1

\* for i in range(1, num_replicas + 1): the loop goes on to the next index
\* whether the body ended normally or in one of its except branches
LoopAdvance(i, num_replicas, outcome) == i + 1

\* variant: the except branch stores a snippet and no reason
ApiErrorRecordNoReason(outcome) == [error |-> <<>>, raw_response |-> <<>>]

\* the Failed record of the except branch for an invocation failure
ApiErrorRecord(outcome) ==
    [error |-> <<"API Error:",
                 IF outcome.kind = "raise" THEN outcome.reason
                 ELSE "'NoneType' object has no attribute 'split'">>]

\* the Failed record of the two parse-failure branches
ParseErrorRecord(i, response_content) ==
    [error |-> <<"Failed to parse structured response for replica",
                 ToString(i)>>,
     raw_response |-> Prefix(response_content, SnippetLen)]

\* variant: the running total is overwritten by the cost of the last response
AddOutputTokensLast(total_output_tokens, response_content) == count_tokens(response_content)

\* total_output_tokens += count_tokens(response_content)
AddOutputTokens(total_output_tokens, response_content) ==
    total_output_tokens + count_tokens(response_content)

\* the characters of a word as one atom
RECURSIVE Join(_)
Join(chars) == IF chars = <<>> THEN "" ELSE chars[1] \o Join(Tail(chars))

\* a label as atoms: its words, with one blank atom between two words
RECURSIVE Atoms(_)
Atoms(label) ==
    LET b == IndexFrom(label, " ", 1)
    IN  IF b = 0 THEN <<Join(label)>>
        ELSE <<Join(SubSeq(label, 1, b - 1)), " ">> \o Atoms(Drop(label, b))

\* single_replica_prompt of unit i
SingleReplicaPrompt(formatted_prompt, num_replicas) ==
    Replace(formatted_prompt, <<"**", ToString(num_replicas), "**">>,
            <<"**", "1", "**">>)

\* structured_prompt, the user message of unit i (abridged to the lines that
\* hold the theme, the suffix and the original content)
StructuredPrompt(selected_theme, theme_suffix, single_replica_prompt) ==
    <<"THEME:", " ">> \o Atoms(selected_theme) \o <<"\n">>
    \o <<"theme", " ", "suffix", " ", Join(theme_suffix), "\n">>
    \o <<"Original", " ", "content", " ", "to", " ", "transform:", "\n">>
    \o single_replica_prompt

\* ------------------------------------------------------------------------
\* app.py: one iteration of the generation loop
\* ------------------------------------------------------------------------
\* selected_theme and selected_colors of unit i in app.py
AppSelectedTheme(shuffled_themes, i) ==
    shuffled_themes[CycleIndex(i, shuffled_themes)]

AppSelectedColors(shuffled_colors, i) ==
    shuffled_colors[CycleIndex(i, shuffled_colors)]

\* replica_data after test-case replacement and tag metadata (app.py)
AppReplicaData(d, response_content, uuid_base) ==
    LET replica_data == parse_structured_response(response_content)
        original_test_cases == Get(d, "test_cases", <<>>)
        formatted_test_cases ==
            format_test_cases_from_original(original_test_cases,
                                            Len(original_test_cases), uuid_base)
        tag_names == Get(d, "tag_names", <<>>)
    IN  IF replica_data = NoneValue THEN NoneValue
        ELSE Update([replica_data EXCEPT !.test_cases = formatted_test_cases],
                    [subtopic |-> extract_tag_value(tag_names, PrefixSubTopic),
                     course |-> extract_tag_value(tag_names, PrefixCourse),
                     module |-> extract_tag_value(tag_names, PrefixModule),
                     unit |-> extract_tag_value(tag_names, PrefixUnit)])

AppUnit(t) ==
    /\ pc[t] = "loop"
    /\ loc[t].i <= loc[t].num_replicas
    /\ \E outcome \in Outcomes, shuffled_colors \in Shuffles(color_schemes) :
         LET i == loc[t].i
             selected_theme == AppSelectedTheme(loc[t].shuffled_themes, i)
             theme_suffix == ThemeSuffix(selected_theme)
             selected_colors == AppSelectedColors(shuffled_colors, i)
             call == [unit |-> i, theme |-> selected_theme,
                      suffix |-> theme_suffix, colors |-> selected_colors,
                      outcome |-> outcome]
         IN  /\ calls' = [calls EXCEPT ![t] = Append(@, call)]
             /\ IF outcome.kind # "text"
                THEN /\ loc' = [loc EXCEPT
                            ![t].all_replicas =
                                DictPut(@, i, ApiErrorRecord(outcome)),
                            ![t].i = LoopAdvance(i, loc[t].num_replicas, outcome)]
                     /\ UNCHANGED uuid_count
                ELSE LET replica_data ==
                             AppReplicaData(data[t], outcome.content, uuid_count)
                     IN  /\ loc' = [loc EXCEPT
                                ![t].total_output_tokens =
                                    AddOutputTokens(@, outcome.content),
                                ![t].all_replicas =
                                    DictPut(@, i,
                                        IF replica_data # NoneValue
                                        THEN replica_data
                                        ELSE ParseErrorRecord(i, outcome.content)),
                                ![t].i = LoopAdvance(i, loc[t].num_replicas, outcome)]
                         /\ uuid_count' =
                                IF replica_data # NoneValue
                                THEN uuid_count + Len(replica_data.test_cases)
                                ELSE uuid_count
    /\ UNCHANGED <<pc, data, http, token_usage, journal, accepted, workload,
                   arg, result>>

\* ------------------------------------------------------------------------
\* app.py: ledger update after the loop, and the endpoints of the ledger
\* ------------------------------------------------------------------------
BatchEntry(t, total_request_tokens) ==
    [op |-> "batch", thread |-> t,
     input_tokens |-> loc[t].input_tokens,
     output_tokens |-> loc[t].total_output_tokens,
     added |-> total_request_tokens]

AppUpdate(t) ==
    /\ pc[t] = "loop"
    /\ loc[t].i > loc[t].num_replicas
    /\ LET total_request_tokens ==
               loc[t].input_tokens + loc[t].total_output_tokens
       IN  /\ loc' = [loc EXCEPT ![t].total_request_tokens = total_request_tokens]
           /\ token_usage' = update_token_usage(token_usage,
                                 total_request_tokens, total_request_tokens)
           /\ journal' = Append(journal, BatchEntry(t, total_request_tokens))
    /\ pc' = [pc EXCEPT ![t] = "read"]
    /\ UNCHANGED <<data, calls, http, uuid_count, accepted, workload, arg,
                   result>>

\* the metadata loop over generated_replicas at the end of generate_replicas
WithRequestMetadata(all_replicas, d) ==
    [k \in 1..Len(all_replicas) |->
        [key |-> all_replicas[k].key,
         value |-> Update(all_replicas[k].value,
                          [subtopic |-> Get(d, "subtopic", <<>>),
                           course |-> Get(d, "course", <<>>),
                           module |-> Get(d, "module", <<>>),
                           unit |-> Get(d, "unit", <<>>)])]]

\* get_token_usage, the metadata loop and the 200 response
Return(t) ==
    /\ pc[t] = "read"
    /\ LET current_usage == token_usage
           generated_replicas == WithRequestMetadata(loc[t].all_replicas, data[t])
       IN  /\ loc' = [loc EXCEPT ![t].all_replicas = generated_replicas]
           /\ http' = [http EXCEPT ![t] =
                  [status |-> 200,
                   success |-> TRUE,
                   replicas |-> generated_replicas,
                   token_usage |->
                       [input_tokens |-> loc[t].input_tokens,
                        output_tokens |-> loc[t].total_output_tokens,
                        total_tokens |-> loc[t].total_request_tokens],
                   session_usage |-> current_usage]]
    /\ pc' = [pc EXCEPT ![t] = "returned"]
    /\ UNCHANGED <<data, calls, token_usage, journal, uuid_count, accepted,
                   workload, arg, result>>

\* the HTTP layer sends the response; the thread is free for the next request
Deliver(t) ==
    /\ pc[t] = "returned"
    /\ pc' = [pc EXCEPT ![t] = "idle"]
    /\ data' = [data EXCEPT ![t] = NoneValue]
    /\ loc' = [loc EXCEPT ![t] = NoLocals]
    /\ calls' = [calls EXCEPT ![t] = <<>>]
    /\ http' = [http EXCEPT ![t] = NoneValue]
    /\ UNCHANGED <<token_usage, journal, uuid_count, accepted, workload, arg,
                   result>>

Resets == Len(SelectSeq(journal, LAMBDA e : e.op = "reset"))

\* POST /api/reset-session-tokens
ResetSession ==
    /\ Resets < MaxResets
    /\ token_usage' = reset_session_tokens(token_usage)
    /\ journal' = Append(journal, [op |-> "reset"])
    /\ UNCHANGED <<pc, data, loc, calls, http, uuid_count, accepted,
                   workload, arg, result>>

\* ------------------------------------------------------------------------
\* main.py: one iteration of the generation loop, and the ledger update
\* ------------------------------------------------------------------------
\* selected_theme of unit i in main.py
MainSelectedTheme(shuffled_themes, i) == themes[CycleIndex(i, themes)]

MainUnit(t) ==
    /\ pc[t] = "loop"
    /\ loc[t].i <= loc[t].num_replicas
    /\ \E outcome \in Outcomes :
         LET i == loc[t].i
             selected_theme == MainSelectedTheme(loc[t].shuffled_themes, i)
             theme_suffix == ThemeSuffix(selected_theme)
             call == [unit |-> i, theme |-> selected_theme,
                      suffix |-> theme_suffix, outcome |-> outcome]
         IN  /\ calls' = [calls EXCEPT ![t] = Append(@, call)]
             /\ IF outcome.kind # "text"
                THEN loc' = [loc EXCEPT
                         ![t].all_replicas =
                             DictPut(@, i, ApiErrorRecord(outcome)),
                         ![t].i = LoopAdvance(i, loc[t].num_replicas, outcome)]
                ELSE LET replica_data ==
                             parse_structured_response(outcome.content)
                     IN  loc' = [loc EXCEPT
                             ![t].total_output_tokens =
                                 AddOutputTokens(@, outcome.content),
                             ![t].all_replicas =
                                 DictPut(@, i,
                                     IF replica_data # NoneValue
                                     THEN replica_data
                                     ELSE ParseErrorRecord(i, outcome.content)),
                             ![t].i = LoopAdvance(i, loc[t].num_replicas, outcome)]
    /\ UNCHANGED <<pc, data, http, token_usage, journal, uuid_count,
                   accepted, workload, arg, result>>

\* token_usage[k] += total_request_tokens is a read of the dict entry ...
MainLoad(t) ==
    /\ \/ /\ pc[t] = "loop"
          /\ loc[t].i > loc[t].num_replicas
          /\ loc' = [loc EXCEPT
                 ![t].total_request_tokens =
                     loc[t].input_tokens + loc[t].total_output_tokens,
                 ![t].tmp = token_usage.session_tokens]
          /\ pc' = [pc EXCEPT ![t] = "store_session"]
       \/ /\ pc[t] = "load_total"
          /\ loc' = [loc EXCEPT ![t].tmp = token_usage.total_tokens]
          /\ pc' = [pc EXCEPT ![t] = "store_total"]
    /\ UNCHANGED <<data, calls, http, token_usage, journal, uuid_count,
                   accepted, workload, arg, result>>

\* ... followed by a write of the sum
MainStore(t) ==
    /\ \/ /\ pc[t] = "store_session"
          /\ token_usage' = [token_usage EXCEPT
                 !.session_tokens = loc[t].tmp + loc[t].total_request_tokens]
          /\ pc' = [pc EXCEPT ![t] = "load_total"]
          /\ journal' = journal
       \/ /\ pc[t] = "store_total"
          /\ token_usage' = [token_usage EXCEPT
                 !.total_tokens = loc[t].tmp + loc[t].total_request_tokens]
          /\ pc' = [pc EXCEPT ![t] = "read"]
          /\ journal' = Append(journal,
                               BatchEntry(t, loc[t].total_request_tokens))
    /\ UNCHANGED <<data, loc, calls, http, uuid_count, accepted, workload,
                   arg, result>>

\* ------------------------------------------------------------------------
\* Specifications
\* ------------------------------------------------------------------------
\* app.py
Next ==
    \/ \E t \in AppThreads : Start(t)
    \/ \E t \in AppThreads : AppUnit(t)
    \/ \E t \in AppThreads : AppUpdate(t)
    \/ \E t \in AppThreads : Return(t)
    \/ \E t \in AppThreads : Deliver(t)
    \/ ResetSession

Spec == Init /\ [][Next]_vars

\* main.py
NextMain ==
    \/ \E t \in MainThreads : Start(t)
    \/ \E t \in MainThreads : MainUnit(t)
    \/ \E t \in MainThreads : MainLoad(t)
    \/ \E t \in MainThreads : MainStore(t)
    \/ \E t \in MainThreads : Return(t)
    \/ \E t \in MainThreads : Deliver(t)

SpecMain == Init /\ [][NextMain]_vars

\* ------------------------------------------------------------------------
\* The theme_suffix derivation as a function of an arbitrary label
\* ------------------------------------------------------------------------
MaxWords == 3      \* longest label, in words

LabelWords == { <<"S","h","o","p">>, <<"S","t","o","r","e">>, <<"M","a","n","a","g","e","r">>, <<"P","e","t">>, <<"C","o","f","f","e","e">> }

RECURSIVE LabelsOf(_)
LabelsOf(n) ==
    IF n = 1 THEN LabelWords
    ELSE LabelsOf(n - 1)
         \cup { l \o <<" ">> \o w : l \in LabelsOf(n - 1), w \in LabelWords }

Labels == LabelsOf(MaxWords)

InitSuffix ==
    /\ pc = [t \in Threads |-> "idle"]
    /\ data = [t \in Threads |-> NoneValue]
    /\ loc = [t \in Threads |-> NoLocals]
    /\ calls = [t \in Threads |-> <<>>]
    /\ http = [t \in Threads |-> NoneValue]
    /\ token_usage = [session_tokens |-> 0, total_tokens |-> 0]
    /\ journal = <<>>
    /\ uuid_count = 0
    /\ accepted = 0
    /\ workload = [batches |-> 0, num_replicas |-> 0]
    /\ arg \in { [selected_theme |-> l] : l \in Labels }
    /\ result = NoneValue

DeriveSuffix ==
    /\ result = NoneValue
    /\ result' = [theme_suffix |-> ThemeSuffix(arg.selected_theme)]
    /\ UNCHANGED <<arg, server>>

NextSuffix == DeriveSuffix

SpecSuffix == InitSuffix /\ [][NextSuffix]_vars

\* ------------------------------------------------------------------------
\* The theme selection of one batch over an arbitrary two-label pool
\* ------------------------------------------------------------------------
CoffeeShop == <<"C","o","f","f","e","e"," ","S","h","o","p">>
Bakery == <<"B","a","k","e","r","y">>

PoolLabels == {CoffeeShop, Bakery, CoffeeShopManager, PetStoreManager}

\* the pools: two different labels, in either order
Pools == { <<a, b>> : a, b \in PoolLabels } \ { <<a, a>> : a \in PoolLabels }

InitSelect ==
    /\ pc = [t \in Threads |-> "idle"]
    /\ data = [t \in Threads |-> NoneValue]
    /\ loc = [t \in Threads |-> NoLocals]
    /\ calls = [t \in Threads |-> <<>>]
    /\ http = [t \in Threads |-> NoneValue]
    /\ token_usage = [session_tokens |-> 0, total_tokens |-> 0]
    /\ journal = <<>>
    /\ uuid_count = 0
    /\ accepted = 0
    /\ workload = [batches |-> 0, num_replicas |-> 0]
    /\ \E pool \in Pools, n \in 1..MaxN :
         \E shuffled_themes \in Shuffles(pool) :
             arg = [themes |-> pool, shuffled_themes |-> shuffled_themes,
                    num_replicas |-> n]
    /\ result = [units |-> <<>>]

\* the first three statements of the loop body for the next unit
SelectTheme ==
    /\ Len(result.units) < arg.num_replicas
    /\ LET i == Len(result.units) + 1
           selected_theme == AppSelectedTheme(arg.shuffled_themes, i)
       IN  result' = [units |-> Append(result.units,
                          [unit |-> i, selected_theme |-> selected_theme,
                           theme_suffix |-> ThemeSuffix(selected_theme)])]
    /\ UNCHANGED <<arg, server>>

NextSelect == SelectTheme

SpecSelect == InitSelect /\ [][NextSelect]_vars

\* ------------------------------------------------------------------------
\* parse_structured_response as a function of an arbitrary response text
\* ------------------------------------------------------------------------
MaxBody == 2       \* longest section body, in atoms

BodyAtoms == {"x", " ", "\n"}

RECURSIVE BodiesOf(_)
BodiesOf(n) ==
    IF n = 0 THEN { <<>> }
    ELSE BodiesOf(n - 1)
         \cup { Append(b, a) : b \in BodiesOf(n - 1), a \in BodyAtoms }

Bodies == BodiesOf(MaxBody)

\* what a response can hold for one section: nothing, one sentinel only, the
\* sentinels in the wrong order, a section, two sections in a row
Fragments(start, end) ==
    { <<>>, <<start>>, <<end>>, <<end, "x", start>>,
      <<start, "x", end, "\n", start, "y", end>> }
    \cup { <<start>> \o b \o <<end>> : b \in Bodies }

ShortFragments(start, end) == { <<>>, <<start, "x">>, <<start, "x", end>> }

ThemeLines ==
    { <<>>, <<"THEME:", "\n">>,
      <<"THEME:", " ", "Bakery", " ", "-", " ", "Replica", " ", "1", "\n">> }

ResponseTexts ==
    { th \o h \o c \o j \o q \o ts :
        th \in ThemeLines,
        h \in Fragments("HTML_START", "HTML_END"),
        c \in ShortFragments("CSS_START", "CSS_END") \cup { <<"CSS_END">> },
        j \in ShortFragments("JS_START", "JS_END"),
        q \in ShortFragments("QUESTION_START", "QUESTION_END"),
        ts \in ShortFragments("TESTS_START", "TESTS_END") }

InitParse ==
    /\ pc = [t \in Threads |-> "idle"]
    /\ data = [t \in Threads |-> NoneValue]
    /\ loc = [t \in Threads |-> NoLocals]
    /\ calls = [t \in Threads |-> <<>>]
    /\ http = [t \in Threads |-> NoneValue]
    /\ token_usage = [session_tokens |-> 0, total_tokens |-> 0]
    /\ journal = <<>>
    /\ uuid_count = 0
    /\ accepted = 0
    /\ workload = [batches |-> 0, num_replicas |-> 0]
    /\ arg \in { [response_text |-> r] : r \in ResponseTexts }
    /\ result = NoneValue

Parse ==
    /\ result = NoneValue
    /\ result' = [replica_data |-> parse_structured_response(arg.response_text)]
    /\ UNCHANGED <<arg, server>>

NextParse == Parse

SpecParse == InitParse /\ [][NextParse]_vars

\* ------------------------------------------------------------------------
\* The JSON repair engine as a machine over an arbitrary response text
\* ------------------------------------------------------------------------
MaxMembers == 2    \* most members of a generated JSON object

\* what a generator writes for one member: a number, a string, a string with
\* a literal line break, an unterminated string, a string with inner quotes,
\* an object
MemberForms ==
    { <<Quote, "a", Quote, ":", " ", "1">>,
      <<Quote, "a", Quote, ":", " ", Quote, "x", Quote>>,
      <<Quote, "a", Quote, ":", " ", Quote, "x", "\n", "y", Quote>>,
      <<Quote, "a", Quote, ":", " ", Quote, "z">>,
      <<Quote, "a", Quote, ":", " ", Quote, "he", " ", Quote, "hi", Quote,
        " ", "ok", Quote>>,
      <<Quote, "a", Quote, ":", " ", "{", Quote, "c", Quote, ":", " ", "1",
        "}">> }

\* between two members: a comma, a comma and a line break, no comma
MemberSeparators == { <<",", " ">>, <<",", "\n">>, <<" ">> }

\* before the closing brace: nothing, a trailing comma, a line break
ObjectEnds == { <<"}">>, <<",", "}">>, <<"\n", "}">> }

RECURSIVE MemberLists(_)
MemberLists(n) ==
    IF n = 1 THEN MemberForms
    ELSE MemberLists(n - 1)
         \cup { l \o sep \o m : l \in MemberLists(n - 1),
                                 sep \in MemberSeparators, m \in MemberForms }

JsonObjects ==
    { <<"{">> \o l \o e : l \in MemberLists(MaxMembers), e \in ObjectEnds }

\* a response: an object, bare, in a markdown fence or after some prose, or a
\* text that holds no object
JsonTexts ==
    JsonObjects
    \cup { <<FenceJson, "\n">> \o o \o <<"\n", Fence>> : o \in JsonObjects }
    \cup { <<"Here", " ">> \o o \o <<"\n">> : o \in JsonObjects }
    \cup { <<>>, <<"no", " ", "braces">>, <<"{", Quote, "a", Quote>>,
           <<"a", "}">>, <<"}", " ", "{">>, <<"{", "}">> }

\* attempt_json_repair has been called and has not run its try block yet
RepairCalled ==
    [phase |-> "called", k |-> 0, current_json |-> <<>>, trace |-> <<>>,
     caught |-> "", value |-> NoneValue]

InitRepair ==
    /\ pc = [t \in Threads |-> "idle"]
    /\ data = [t \in Threads |-> NoneValue]
    /\ loc = [t \in Threads |-> NoLocals]
    /\ calls = [t \in Threads |-> <<>>]
    /\ http = [t \in Threads |-> NoneValue]
    /\ token_usage = [session_tokens |-> 0, total_tokens |-> 0]
    /\ journal = <<>>
    /\ uuid_count = 0
    /\ accepted = 0
    /\ workload = [batches |-> 0, num_replicas |-> 0]
    /\ arg \in { [response_text |-> r] : r \in JsonTexts }
    /\ result = RepairCalled

\* cleaned = clean_openai_json_response(response_text); its ValueError is
\* caught by the outer except, which prints it and returns None
RepairClean ==
    /\ result.phase = "called"
    /\ LET cleaned == clean_openai_json_response(arg.response_text)
       IN  result' =
             IF cleaned.raised
             THEN [result EXCEPT !.phase = "returned", !.caught = cleaned.error,
                                 !.value = NoneValue]
             ELSE [result EXCEPT !.phase = "loop", !.k = 1,
                                 !.current_json = cleaned.text]
    /\ UNCHANGED <<arg, server>>

\* the strategy that runs when the loop variable is k
StrategyAt(k) == k

\* what the next strategy is given when the output of strategy k did not parse
NextInputOriginal(current_json, repaired) == current_json

NextInput(current_json, repaired) == repaired

\* one pass of the for loop: the strategy is applied to current_json; when its
\* output parses it is returned, else it becomes current_json
RepairStep ==
    /\ result.phase = "loop"
    /\ result.k <= NumStrategies
    /\ LET strategy == StrategyAt(result.k)
           repaired == Strategy(strategy, result.current_json)
           entry == [strategy |-> strategy, input |-> result.current_json,
                     output |-> repaired, parsed |-> Loads(repaired)]
       IN  result' =
             IF Loads(repaired)
             THEN [result EXCEPT !.phase = "returned",
                                 !.trace = Append(@, entry),
                                 !.value = [text |-> repaired]]
             ELSE [result EXCEPT !.k = @ + 1,
                                 !.trace = Append(@, entry),
                                 !.current_json =
                                     NextInput(result.current_json, repaired)]
    /\ UNCHANGED <<arg, server>>

\* the loop ended without a return: return None
RepairExhausted ==
    /\ result.phase = "loop"
    /\ result.k > NumStrategies
    /\ result' = [result EXCEPT !.phase = "returned", !.value = NoneValue]
    /\ UNCHANGED <<arg, server>>

NextRepair ==
    \/ RepairClean
    \/ RepairStep
    \/ RepairExhausted

SpecRepair == InitRepair /\ [][NextRepair]_vars

\* ------------------------------------------------------------------------
\* The servers with a restart of the process
\* ------------------------------------------------------------------------
MaxRestarts == 1   \* restarts of the server process in one run

Restarts == Len(SelectSeq(journal, LAMBDA e : e.op = "restart"))

\* init_database: CREATE TABLE IF NOT EXISTS and INSERT OR IGNORE of the
\* 'main' row; store is the 'main' row of the database file, None when the
\* file has no such row
init_database(store) ==
    IF store = NoneValue
    THEN [session_tokens |-> 0, total_tokens |-> 0]
    ELSE store

\* the module-level token_usage literal of main.py
token_usage_literal(store) == [session_tokens |-> 0, total_tokens |-> 0]

\* the process ends, with the requests it was serving, and starts again: the
\* module is loaded again
ProcessRestart ==
    /\ Restarts < MaxRestarts
    /\ pc' = [t \in Threads |-> "idle"]
    /\ data' = [t \in Threads |-> NoneValue]
    /\ loc' = [t \in Threads |-> NoLocals]
    /\ calls' = [t \in Threads |-> <<>>]
    /\ http' = [t \in Threads |-> NoneValue]
    /\ journal' = Append(journal, [op |-> "restart"])
    /\ UNCHANGED <<uuid_count, accepted, workload, arg, result>>

\* app.py is loaded: init_database() runs on the database file
AppRestart ==
    /\ ProcessRestart
    /\ token_usage' = init_database(token_usage)

\* main.py is loaded: the dict is created anew
MainRestart ==
    /\ ProcessRestart
    /\ token_usage' = token_usage_literal(token_usage)

NextRestart ==
    \/ \E t \in AppThreads : Start(t)
    \/ \E t \in AppThreads : AppUnit(t)
    \/ \E t \in AppThreads : AppUpdate(t)
    \/ \E t \in AppThreads : Return(t)
    \/ \E t \in AppThreads : Deliver(t)
    \/ ResetSession
    \/ AppRestart

SpecRestart == Init /\ [][NextRestart]_vars

NextMainRestart ==
    \/ \E t \in MainThreads : Start(t)
    \/ \E t \in MainThreads : MainUnit(t)
    \/ \E t \in MainThreads : MainLoad(t)
    \/ \E t \in MainThreads : MainStore(t)
    \/ \E t \in MainThreads : Return(t)
    \/ \E t \in MainThreads : Deliver(t)
    \/ MainRestart

SpecMainRestart == Init /\ [][NextMainRestart]_vars

TypeOK ==
    /\ token_usage.session_tokens \in Nat
    /\ token_usage.total_tokens \in Nat
    /\ accepted \in 0..MaxBatches

\* ------------------------------------------------------------------------
\* Properties
\* ------------------------------------------------------------------------
\* thread t has returned the result map of a batch
Returned(t) == pc[t] = "returned" /\ http[t].status = 200

IsParsed(v) == "html_code" \in DOMAIN v /\ "error" \notin DOMAIN v
IsFailed(v) == "error" \in DOMAIN v /\ "html_code" \notin DOMAIN v

\* C1: per-unit failure isolation.  When a batch of N units returns, the
\* service has been invoked once for every index 1..N in order, also for the
\* indices after a failed invocation, and every unit whose invocation returned
\* a text that parsed holds a Parsed record in the result.
C1_FailureIsolation ==
    \A t \in Threads :
        Returned(t) =>
            /\ Len(calls[t]) = data[t].num_replicas
            /\ \A k \in 1..Len(calls[t]) :
                 /\ calls[t][k].unit = k
                 /\ calls[t][k].outcome.kind = "text" =>
                        \E s \in 1..Len(http[t].replicas) :
                            /\ http[t].replicas[s].key = k
                            /\ IsParsed(http[t].replicas[s].value)

\* unit 2 of 3 failed its invocation, units 1 and 3 are Parsed
C1_Witness ==
    \E t \in Threads :
        /\ Returned(t)
        /\ data[t].num_replicas = 3
        /\ Len(calls[t]) = 3
        /\ calls[t][1].outcome.kind = "text"
        /\ calls[t][2].outcome.kind = "raise"
        /\ calls[t][3].outcome.kind = "text"
        /\ IsParsed(http[t].replicas[1].value)
        /\ IsFailed(http[t].replicas[2].value)
        /\ IsParsed(http[t].replicas[3].value)

\* C2: the result map of a batch of N units has exactly the keys replica_1 ..
\* replica_N, in index order, and every slot holds exactly one outcome, a
\* Parsed record or a Failed record.
C2_AllSlotsEnumerated ==
    \A t \in Threads :
        Returned(t) =>
            /\ Len(http[t].replicas) = data[t].num_replicas
            /\ \A k \in 1..Len(http[t].replicas) :
                 /\ http[t].replicas[k].key = k
                 /\ IsParsed(http[t].replicas[k].value)
                        # IsFailed(http[t].replicas[k].value)

\* a result of three slots that mixes a Parsed record with both kinds of
\* failed invocation
C2_Witness ==
    \E t \in Threads :
        /\ Returned(t)
        /\ Len(http[t].replicas) = 3
        /\ \E a, b, c \in 1..3 :
             /\ calls[t][a].outcome.kind = "raise"
             /\ calls[t][b].outcome.kind = "none"
             /\ calls[t][c].outcome.kind = "text"
             /\ IsFailed(http[t].replicas[a].value)
             /\ IsFailed(http[t].replicas[b].value)
             /\ IsParsed(http[t].replicas[c].value)

RECURSIVE BatchSum(_)
BatchSum(j) ==
    IF j = <<>> THEN 0
    ELSE (IF j[1].op = "batch" THEN j[1].input_tokens + j[1].output_tokens
          ELSE 0) + BatchSum(Tail(j))

\* the part of a journal after its last reset
RECURSIVE SinceReset(_)
SinceReset(j) ==
    IF j = <<>> THEN <<>>
    ELSE IF j[Len(j)].op = "reset" THEN <<>>
    ELSE Append(SinceReset(SubSeq(j, 1, Len(j) - 1)), j[Len(j)])

BatchEntries == SelectSeq(journal, LAMBDA e : e.op = "batch")

\* C4: starting from (0, 0), after any sequence of completed batches and
\* session resets, total_tokens is the sum of input_tokens + output_tokens
\* over all batches, session_tokens is that sum over the batches since the
\* last reset, and every batch added the same amount to both counters.
C4_LedgerAccounting ==
    /\ token_usage.total_tokens = BatchSum(journal)
    /\ token_usage.session_tokens = BatchSum(SinceReset(journal))
    /\ \A k \in 1..Len(journal) :
         journal[k].op = "batch" =>
             journal[k].added = journal[k].input_tokens + journal[k].output_tokens

\* two batches of different cost with a reset between them
C4_Witness ==
    /\ Len(journal) = 3
    /\ journal[1].op = "batch"
    /\ journal[2].op = "reset"
    /\ journal[3].op = "batch"
    /\ journal[1].added > 0
    /\ journal[3].added > journal[1].added
    /\ journal[3].output_tokens > 0
    /\ token_usage.total_tokens = journal[1].added + journal[3].added
    /\ token_usage.session_tokens = journal[3].added

\* the step is a session reset
IsResetStep ==
    /\ Len(journal') = Len(journal) + 1
    /\ journal'[Len(journal')].op = "reset"

\* C5: a session reset sets session_tokens to 0 and leaves total_tokens as it
\* was.
C5_ResetFrame ==
    [][IsResetStep =>
          /\ token_usage'.session_tokens = 0
          /\ token_usage'.total_tokens = token_usage.total_tokens]_vars

\* the ledger right after a reset that followed a batch
C5_Witness ==
    /\ journal # <<>>
    /\ journal[Len(journal)].op = "reset"
    /\ BatchEntries # <<>>
    /\ token_usage.total_tokens > 0
    /\ token_usage.session_tokens = 0

\* C6: ledger increments are serialized.  Whenever no batch is in the middle
\* of its ledger update, both counters have grown by the sum of the costs of
\* the batches that updated the ledger.
C6_NoLostIncrement ==
    (\A t \in Threads : pc[t] \notin {"store_session", "load_total", "store_total"})
        => /\ token_usage.total_tokens = BatchSum(journal)
           /\ token_usage.session_tokens = BatchSum(journal)

\* C7: in a batch of N <= len(themes) units the theme suffixes handed to the
\* units are pairwise distinct.
C7_DistinctSuffixes ==
    \A t \in Threads :
        loc[t].num_replicas <= Len(themes) =>
            \A j, k \in 1..Len(calls[t]) :
                j # k => calls[t][j].suffix # calls[t][k].suffix

\* a batch as large as the pool has invoked the service for all its units
C7_Witness ==
    \E t \in Threads :
        /\ loc[t].num_replicas = Len(themes)
        /\ Len(calls[t]) = Len(themes)
        /\ calls[t][1].suffix # calls[t][2].suffix
        /\ calls[t][1].suffix # <<>>

\* C8: unit i receives element (i - 1) mod len(pool) of the pool as shuffled
\* for this batch, so units i and i + len(pool) receive the same theme and no
\* theme repeats before the pool is exhausted.
C8_ShuffledCycle ==
    \A t \in Threads :
        \A k \in 1..Len(calls[t]) :
            /\ calls[t][k].theme =
                   loc[t].shuffled_themes[((k - 1) % Len(loc[t].shuffled_themes)) + 1]
            /\ \A j \in 1..Len(calls[t]) :
                 (j # k /\ calls[t][j].theme = calls[t][k].theme)
                     => (j - k) % Len(themes) = 0

\* C9: for a batch of N <= len(color_schemes) units no two units receive the
\* same palette.
C9_DistinctPalettes ==
    \A t \in Threads :
        loc[t].num_replicas <= Len(color_schemes) =>
            \A j, k \in 1..Len(calls[t]) :
                j # k => calls[t][j].colors # calls[t][k].colors

Sections ==
    { [field |-> "html_code", start |-> "HTML_START", end |-> "HTML_END"],
      [field |-> "css_code", start |-> "CSS_START", end |-> "CSS_END"],
      [field |-> "js_code", start |-> "JS_START", end |-> "JS_END"],
      [field |-> "question_text", start |-> "QUESTION_START",
       end |-> "QUESTION_END"],
      [field |-> "test_cases", start |-> "TESTS_START", end |-> "TESTS_END"] }

RecordFields ==
    {"short_text", "html_code", "css_code", "js_code", "question_text",
     "test_cases", "html_solution", "css_solution", "js_solution", "subtopic",
     "course", "module", "unit"}

\* the positions of the first START sentinel that an END sentinel follows and
\* of the first END sentinel after it
HasSection(text, sec) ==
    \E s, e \in 1..Len(text) :
        s < e /\ text[s] = sec.start /\ text[e] = sec.end

FirstStart(text, sec) ==
    CHOOSE s \in 1..Len(text) :
        text[s] = sec.start /\ \A j \in 1..(s - 1) : text[j] # sec.start

FirstEndAfter(text, sec, s) ==
    CHOOSE e \in (s + 1)..Len(text) :
        text[e] = sec.end /\ \A j \in (s + 1)..(e - 1) : text[j] # sec.end

\* C12: for every response text the delimiter extraction returns a record with
\* all its fields; the field of each section is what lies between the first
\* START sentinel and the first END sentinel after it, without surrounding
\* white space, and it is the empty string when the text has no START sentinel
\* followed by an END sentinel, whatever the other sections hold.
C12_ExtractionNeverFails ==
    result # NoneValue =>
        /\ DOMAIN result.replica_data = RecordFields
        /\ \A sec \in Sections :
             LET text == arg.response_text
                 got == result.replica_data[sec.field]
             IN  IF HasSection(text, sec)
                 THEN LET s == FirstStart(text, sec)
                          e == FirstEndAfter(text, sec, s)
                      IN  got = Strip(SubSeq(text, s + 1, e - 1), Space)
                 ELSE got = <<>>

\* a text with two HTML sections in a row, a CSS section without its END
\* sentinel and a JS section: the first HTML section and the JS section are
\* extracted, the CSS field is empty
C12_Witness ==
    /\ result # NoneValue
    /\ \E k \in 1..Len(arg.response_text) : arg.response_text[k] = "CSS_START"
    /\ \A k \in 1..Len(arg.response_text) : arg.response_text[k] # "CSS_END"
    /\ \E k \in 1..Len(arg.response_text) : arg.response_text[k] = "y"
    /\ result.replica_data.html_code = <<"x">>
    /\ result.replica_data.css_code = <<>>
    /\ result.replica_data.js_code = <<"x">>

\* the Parsed records of the result thread t returned
ParsedRecords(t) ==
    { http[t].replicas[k].value : k \in
        { j \in 1..Len(http[t].replicas) : IsParsed(http[t].replicas[j].value) } }

\* C13: in every Parsed record of a returned batch result, after the test
\* cases were replaced and the metadata attached, html_solution equals
\* html_code, css_solution equals css_code and js_solution equals js_code.
C13_SolutionInvariant ==
    \A t \in Threads :
        Returned(t) =>
            \A v \in ParsedRecords(t) :
                /\ v.html_solution = v.html_code
                /\ v.css_solution = v.css_code
                /\ v.js_solution = v.js_code

\* a returned result holds a Parsed record with code in all three languages,
\* structured test cases and request metadata
C13_Witness ==
    \E t \in Threads :
        /\ Returned(t)
        /\ \E v \in ParsedRecords(t) :
             /\ v.html_code # <<>>
             /\ v.css_code # <<>>
             /\ v.js_code # <<>>
             /\ v.html_solution = v.html_code
             /\ Len(v.test_cases) = Len(data[t].test_cases)
             /\ v.course = <<"W","e","b">>

\* C14: in every Parsed record of a batch result, test_cases is the sequence of
\* the request's test cases in their order, as structured test cases with the
\* display_text and criteria of the original at the same position and the
\* evaluation_type of the original or its default, and never the text between
\* TESTS_START and TESTS_END of the response.
C14_TestCasesFromRequest ==
    \A t \in Threads :
        Returned(t) =>
            \A v \in ParsedRecords(t) :
                LET original_test_cases == data[t].test_cases
                IN  /\ Len(v.test_cases) = Len(original_test_cases)
                    /\ \A k \in 1..Len(v.test_cases) :
                         /\ v.test_cases[k].display_text =
                                original_test_cases[k].display_text
                         /\ v.test_cases[k].criteria =
                                original_test_cases[k].criteria
                         /\ v.test_cases[k].evaluation_type =
                                Get(original_test_cases[k], "evaluation_type",
                                    "CLIENT_SIDE_EVALUATION")

\* C15: every test case embedded in a Parsed record of a batch carries an
\* identifier that differs from the identifier of every test case of the
\* request and from the identifier of every other test case embedded in the
\* batch, in the same record or in the record of another unit.
C15_FreshIdentifiers ==
    \A t \in Threads :
        Returned(t) =>
            \A a, b \in 1..Len(http[t].replicas) :
                LET va == http[t].replicas[a].value
                    vb == http[t].replicas[b].value
                IN  (IsParsed(va) /\ IsParsed(vb)) =>
                        \A j \in 1..Len(va.test_cases) :
                            /\ \A o \in 1..Len(data[t].test_cases) :
                                 "id" \in DOMAIN data[t].test_cases[o] =>
                                     va.test_cases[j].id # data[t].test_cases[o].id
                            /\ \A k \in 1..Len(vb.test_cases) :
                                 (a # b \/ j # k) =>
                                     va.test_cases[j].id # vb.test_cases[k].id

\* two Parsed records of one batch embed two test cases each
C15_Witness ==
    \E t \in Threads :
        /\ Returned(t)
        /\ Len(http[t].replicas) >= 2
        /\ IsParsed(http[t].replicas[1].value)
        /\ IsParsed(http[t].replicas[2].value)
        /\ Len(http[t].replicas[1].value.test_cases) = 2
        /\ Len(http[t].replicas[2].value.test_cases) = 2
        /\ http[t].replicas[1].value.test_cases[1].id
               # http[t].replicas[2].value.test_cases[1].id

\* C16: the number of test cases embedded in a Parsed record is the smaller of
\* the number of test cases of the request and the requested replica count,
\* and every embedded test case is one of the request.
C16_TestCaseCountCap ==
    \A t \in Threads :
        Returned(t) =>
            \A v \in ParsedRecords(t) :
                /\ Len(v.test_cases)
                       = Min(Len(data[t].test_cases), data[t].num_replicas)
                /\ \A k \in 1..Len(v.test_cases) :
                     \E o \in 1..Len(data[t].test_cases) :
                         v.test_cases[k].display_text
                             = data[t].test_cases[o].display_text

\* C17: in the result returned for a request that has a tag list, the
\* subtopic, course, module and unit of every Parsed record are the values
\* derived from the tags with the prefixes SUB_TOPIC_, COURSE_, MODULE_ and
\* UNIT_.
C17_TagMetadata ==
    \A t \in Threads :
        (Returned(t) /\ "tag_names" \in DOMAIN data[t]) =>
            \A v \in ParsedRecords(t) :
                /\ v.subtopic = extract_tag_value(data[t].tag_names, PrefixSubTopic)
                /\ v.course = extract_tag_value(data[t].tag_names, PrefixCourse)
                /\ v.module = extract_tag_value(data[t].tag_names, PrefixModule)
                /\ v.unit = extract_tag_value(data[t].tag_names, PrefixUnit)

\* the token cost of the prompts compiled for the units of a sequence of calls
RECURSIVE UnitPromptCost(_, _)
UnitPromptCost(cs, single_replica_prompt) ==
    IF cs = <<>> THEN 0
    ELSE count_tokens(StructuredPrompt(cs[1].theme, cs[1].suffix,
                                       single_replica_prompt))
         + UnitPromptCost(Tail(cs), single_replica_prompt)

\* C18: the input_tokens a batch of N units reports is the sum, over its N
\* units, of the token cost of the prompt compiled for the unit.
C18_InputTokensPerUnit ==
    \A t \in Threads :
        Returned(t) =>
            http[t].token_usage.input_tokens =
                UnitPromptCost(calls[t],
                    SingleReplicaPrompt(FormattedPrompt(data[t]),
                                        data[t].num_replicas))

\* the token cost of the response texts received in a sequence of calls
RECURSIVE ResponseCost(_)
ResponseCost(cs) ==
    IF cs = <<>> THEN 0
    ELSE (IF cs[1].outcome.kind = "text"
          THEN count_tokens(cs[1].outcome.content) ELSE 0)
         + ResponseCost(Tail(cs))

FailedHard(t) == pc[t] = "returned" /\ http[t].status # 200

LacksBrace(text) ==
    \/ \A k \in 1..Len(text) : text[k] # "{"
    \/ \A k \in 1..Len(text) : text[k] # "}"

\* C21: a text that lacks an opening or a closing brace is reported as the
\* distinct no-JSON-object failure also by the repair entry point: what
\* attempt_json_repair returns for it differs from the value it returns when
\* every strategy failed to produce a text that parses (None)
C21_NoJsonFoundDistinct ==
    (result.phase = "returned" /\ LacksBrace(arg.response_text))
        => result.value # NoneValue

\* the positions at which sub occurs in text
Occurrences(text, sub) ==
    { k \in 1..Len(text) :
        /\ k + Len(sub) - 1 <= Len(text)
        /\ SubSeq(text, k, k + Len(sub) - 1) = sub }

\* the text of a string value with a literal line break, and the start of a
\* string value that has no closing quote
NewlineString == <<Quote, "x", "\n", "y", Quote>>
UnterminatedString == <<":", " ", Quote, "z">>

\* an object text with a trailing comma, a literal line break inside a string
\* value and one unterminated string
Damaged(text) ==
    /\ text \in JsonObjects
    /\ RemoveTrailingCommas(text) # text
    /\ Occurrences(text, NewlineString) # {}
    /\ Cardinality(Occurrences(text, UnterminatedString)) = 1

\* C22: for an object text with trailing commas, literal line breaks inside
\* string values and one unterminated string, attempt_json_repair returns a
\* text that parses as JSON
C22_RepairRoundTrip ==
    (result.phase = "returned" /\ Damaged(arg.response_text))
        => (result.value # NoneValue /\ Loads(result.value.text))

\* C25: the strategies run in the order 1..5, each on the output of the one
\* before it (the first on the cleaned text); no strategy runs after one whose
\* output parsed, that output is what the chain returns, and the chain returns
\* None when the output of none of the five parsed
C25_RepairChainProtocol ==
    LET trace == result.trace
        n == Len(trace)
        cleaned == clean_openai_json_response(arg.response_text)
    IN  /\ \A j \in 1..n :
              /\ trace[j].strategy = j
              /\ trace[j].output = Strategy(j, trace[j].input)
              /\ trace[j].parsed = Loads(trace[j].output)
              /\ trace[j].input = IF j = 1 THEN cleaned.text
                                  ELSE trace[j - 1].output
              /\ j < n => ~trace[j].parsed
        /\ n <= NumStrategies
        /\ n > 0 => ~cleaned.raised
        /\ result.phase = "loop" => \A j \in 1..n : ~trace[j].parsed
        /\ (result.phase = "returned" /\ ~cleaned.raised) =>
              IF \E j \in 1..n : trace[j].parsed
              THEN result.value = [text |-> trace[n].output]
              ELSE n = NumStrategies /\ result.value = NoneValue

\* the third strategy repaired a text that the first strategy had changed
C25_Witness ==
    /\ result.phase = "returned"
    /\ Len(result.trace) = 3
    /\ result.trace[3].parsed
    /\ result.trace[2].input # result.trace[1].input
    /\ result.value = [text |-> result.trace[3].output]

\* the chain returned None after the fifth strategy
C25_WitnessExhausted ==
    /\ result.phase = "returned"
    /\ Len(result.trace) = NumStrategies
    /\ result.value = NoneValue

\* a record written back as delimited text: the THEME line with the title,
\* then each field between its START and END sentinels
Regenerated(r) ==
    <<"THEME:", " ">> \o r.short_text \o <<"\n">>
    \o <<"HTML_START", "\n">> \o r.html_code \o <<"\n", "HTML_END", "\n">>
    \o <<"CSS_START", "\n">> \o r.css_code \o <<"\n", "CSS_END", "\n">>
    \o <<"JS_START", "\n">> \o r.js_code \o <<"\n", "JS_END", "\n">>
    \o <<"QUESTION_START", "\n">> \o r.question_text
    \o <<"\n", "QUESTION_END", "\n">>
    \o <<"TESTS_START", "\n">> \o r.test_cases \o <<"\n", "TESTS_END", "\n">>

\* C23: a record returned by parse_structured_response, written back as
\* delimited text and parsed again, yields the same record, title included
C23_ExtractionIdempotent ==
    result # NoneValue =>
        parse_structured_response(Regenerated(result.replica_data))
            = result.replica_data

\* the text of the first THEME line: what follows THEME: up to the end of
\* its line, without surrounding white space
ThemeLineText(text) ==
    LET k == IndexFrom(text, "THEME:", 1)
    IN  Strip(SubSeq(text, k + 1, EndOfLine(text, k + 1)), Space)

\* s without a trailing "- Replica N" suffix
WithoutTrailingReplica(s) ==
    LET at == { p \in 1..Len(s) :
                  /\ ReplicaMatchLen(Drop(s, p - 1)) = Len(s) - p + 1
                  /\ \A q \in 1..(p - 1) :
                        ReplicaMatchLen(Drop(s, q - 1)) # Len(s) - q + 1 }
    IN  IF at = {} THEN s
        ELSE Strip(SubSeq(s, 1, (CHOOSE p \in at : TRUE) - 1), Space)

\* C24: the title of a record is the text of the THEME line without a
\* trailing "- Replica N" suffix; it is a placeholder when the text has no
\* THEME line or when nothing is left of the line, so it is never empty and
\* never comes from a following line or section
C24_TitleSanitization ==
    result # NoneValue =>
        LET text == arg.response_text
            title == result.replica_data.short_text
            sanitized == WithoutTrailingReplica(ThemeLineText(text))
        IN  /\ title # <<>>
            /\ IF IndexFrom(text, "THEME:", 1) = 0 \/ sanitized = <<>>
               THEN title \in {UntitledTheme, CustomTheme}
               ELSE title = sanitized

\* C26: within a batch the k-th invocation of the service is the one of unit
\* k: no unit is invoked twice, every invocation is recorded in its slot
\* before the next one is made (a failed one as a Failed record), and a batch
\* of N units that returned made exactly N invocations
C26_NoRetry ==
    \A t \in Threads :
        /\ \A k \in 1..Len(calls[t]) :
             /\ calls[t][k].unit = k
             /\ k <= Len(loc[t].all_replicas)
             /\ loc[t].all_replicas[k].key = k
             /\ calls[t][k].outcome.kind # "text" =>
                    IsFailed(loc[t].all_replicas[k].value)
        /\ Len(loc[t].all_replicas) = Len(calls[t])
        /\ pc[t] = "loop" => Len(calls[t]) = loc[t].i - 1
        /\ Returned(t) => Len(calls[t]) = data[t].num_replicas

\* a returned batch of the largest size whose first two invocations failed
C26_Witness ==
    \E t \in Threads :
        /\ Returned(t)
        /\ data[t].num_replicas = MaxN
        /\ Len(calls[t]) = MaxN
        /\ calls[t][1].outcome.kind # "text"
        /\ calls[t][2].outcome.kind # "text"
        /\ IsFailed(http[t].replicas[1].value)
        /\ IsFailed(http[t].replicas[2].value)

\* C27: a request that misses a required field is answered, in the step that
\* takes it up, with status 400 and an error that names a field the request
\* misses; the service is not invoked, no slot is created, and the ledger is
\* not written
C27_MissingFieldRejected ==
    [][\A t \in Threads :
          (pc[t] = "idle" /\ pc'[t] # "idle" /\ MissingFields(data'[t]) # {})
              => /\ pc'[t] = "returned"
                 /\ http'[t].status = 400
                 /\ \E k \in MissingFields(data'[t]) :
                       http'[t].error = <<"Missing required field:",
                                          required_fields[k]>>
                 /\ DOMAIN http'[t] = {"status", "error"}
                 /\ calls'[t] = <<>>
                 /\ loc'[t].all_replicas = <<>>
                 /\ token_usage' = token_usage
                 /\ journal' = journal]_vars

\* a request without its num_replicas field was rejected after the ledger had
\* recorded a batch
C27_Witness ==
    \E t \in Threads :
        /\ pc[t] = "returned"
        /\ "num_replicas" \notin DOMAIN data[t]
        /\ http[t] = [status |-> 400,
                      error |-> <<"Missing required field:", "num_replicas">>]
        /\ calls[t] = <<>>
        /\ token_usage.total_tokens > 0
        /\ Len(journal) = 1

\* the step is the ledger write of the batch of thread t: it is taken after
\* the last unit has been recorded and adds input_tokens + output_tokens of
\* the batch to both counters
IsBatchWrite(t) ==
    LET added == loc[t].input_tokens + loc[t].total_output_tokens
    IN  /\ pc[t] = "loop"
        /\ pc'[t] = "read"
        /\ Len(calls[t]) = loc[t].num_replicas
        /\ Len(loc[t].all_replicas) = loc[t].num_replicas
        /\ token_usage' =
               [session_tokens |-> token_usage.session_tokens + added,
                total_tokens |-> token_usage.total_tokens + added]
        /\ journal' = Append(journal, BatchEntry(t, added))

\* C28: the ledger is written only by session resets and by the write of a
\* batch, which comes after the last unit; every batch that leaves the
\* generation loop makes that write, whatever the outcomes of its units and
\* also when it has no unit, so each batch writes exactly once
C28_LedgerWrittenOncePerBatch ==
    [][/\ (token_usage' # token_usage \/ journal' # journal)
            => (IsResetStep \/ \E t \in Threads : IsBatchWrite(t))
       /\ \A t \in Threads :
            (pc[t] = "loop" /\ pc'[t] # "loop") => IsBatchWrite(t)]_vars

\* the ledger holds the prompt cost of one batch whose units all failed their
\* invocation
C28_Witness ==
    \E t \in Threads :
        /\ pc[t] = "read"
        /\ Len(calls[t]) = MaxN
        /\ \A k \in 1..Len(calls[t]) : calls[t][k].outcome.kind # "text"
        /\ loc[t].total_output_tokens = 0
        /\ loc[t].input_tokens > 0
        /\ journal = <<BatchEntry(t, loc[t].input_tokens)>>
        /\ token_usage = [session_tokens |-> loc[t].input_tokens,
                          total_tokens |-> loc[t].input_tokens]

\* the ledger holds the prompt cost of a batch of zero units
C28_WitnessNoUnits ==
    \E t \in Threads :
        /\ pc[t] = "read"
        /\ loc[t].num_replicas = 0
        /\ calls[t] = <<>>
        /\ journal = <<BatchEntry(t, loc[t].input_tokens)>>
        /\ token_usage.total_tokens = loc[t].input_tokens
        /\ loc[t].input_tokens > 0

\* no handler is between the read and the write of a ledger counter
NoWriteInFlight ==
    \A t \in Threads : pc[t] \notin {"store_session", "load_total", "store_total"}

\* C29: whenever no write of the ledger is in flight, 0 <= session_tokens <=
\* total_tokens, and no step decreases total_tokens
C29_LedgerInvariant ==
    /\ [](NoWriteInFlight =>
            /\ 0 <= token_usage.session_tokens
            /\ token_usage.session_tokens <= token_usage.total_tokens)
    /\ [][token_usage'.total_tokens >= token_usage.total_tokens]_vars

\* the step is a restart of the server process
IsRestartStep ==
    /\ Len(journal') = Len(journal) + 1
    /\ journal'[Len(journal')].op = "restart"

\* C30: the ledger of a fresh store starts at (0, 0), and the start-up
\* initialization after a restart of the process leaves both counters as
\* they were before the restart
C30_InitPreservesLedger ==
    /\ token_usage = [session_tokens |-> 0, total_tokens |-> 0]
    /\ [][IsRestartStep => token_usage' = token_usage]_vars

====
